---- MODULE Spec2Model ----
(***************************************************************************)
(* A model of atm_parser_helper's ParserHelper (src/src/lib.rs): a cursor  *)
(* over an immutable byte slice.  Every method of the cursor is an         *)
(* operator from the position it is called at to the position it leaves    *)
(* and the value it returns; every public method is an action applying     *)
(* that operator to the cursor.                                            *)
(*                                                                         *)
(* usize is WordBits wide.  `self.position += offset` is Rust's checked-   *)
(* in-debug, wrapping-in-release addition: overflow_checks is the build's  *)
(* choice.  A panic ends the run (panicked).                               *)
(***************************************************************************)
EXTENDS Integers, Sequences, FiniteSets, TLC

\* ------------------------------------------------------------- bounds
WordBits == 3
MaxLen == 3
MaxNeedle == 2

UsizeModulus == 2 ^ WordBits
UsizeMax == UsizeModulus - 1
Usize == 0 .. UsizeMax
\* u8, as an alphabet of two byte values
Bytes == {"a", "b"}
\* the byte slices a caller can hand to new()
Buffers == UNION {[1 .. n -> Bytes] : n \in 0 .. MaxLen}
\* the byte slices a caller hands to advance_over / expect_bytes
Needles == UNION {[1 .. n -> Bytes] : n \in 0 .. MaxNeedle}
\* fn(u8) -> bool, as the set of bytes it accepts
Preds == SUBSET Bytes
\* the caller's error type E; E::eoi() is "eoi"
Payloads == {"eoi", "B"}
eoi == "eoi"
\* the offsets a caller passes to advance / advance_or / fail_at_position
Offsets == {0, 1, MaxLen + 2, UsizeMax}
\* the ranges lo..hi a caller passes to slice
RangeStarts == {0, 1}
RangeEnds == 0 .. MaxLen + 1

VARIABLES
    buffer,           \* the caller's byte buffer, as handed to new()
    input,            \* ParserHelper.input
    position,         \* ParserHelper.position
    overflow_checks,  \* the build: TRUE panics on usize overflow, FALSE wraps
    panicked,         \* a method panicked; the run is over
    op,               \* the last method called
    args,             \* its arguments
    before,           \* the position it was called at
    ret,              \* what it returned
    repeated,         \* it is the same call as the one before it
    allOk,            \* every call so far returned a success
    consumed,         \* the bytes the successful calls consumed, capped
    lastPeek,         \* the byte the call before the last returned, if that
                      \* call was a peek or peek_or_end, else "none"
    cursors,          \* two ParserHelpers over input: the position of each
    solo,             \* the position each would have, its calls run alone
    who,              \* the cursor of the two that was called last
    agree             \* that call returned what it returns run alone

vars == <<buffer, input, position, overflow_checks, panicked, op, args,
          before, ret, repeated, allOk, consumed, lastPeek,
          cursors, solo, who, agree>>

\* the variables of the single cursor, and of the two cursors
oneVars == <<position, op, args, before, ret, repeated, allOk, consumed, lastPeek>>
twoVars == <<cursors, solo, who, agree>>
Cursors == {"A", "B"}

\* ------------------------------------------------------------- values
NoRet == [tag |-> "Unit", byte |-> "none", n |-> 0, position |-> 0,
          e |-> "none", view |-> <<>>, flag |-> FALSE]
Unit == NoRet
Panic == [NoRet EXCEPT !.tag = "Panic"]
Bool(b) == [NoRet EXCEPT !.tag = "Bool", !.flag = b]
Ok == [NoRet EXCEPT !.tag = "Ok"]
OkByte(c) == [NoRet EXCEPT !.tag = "Ok", !.byte = c]
Some(c) == [NoRet EXCEPT !.tag = "Some", !.byte = c]
None == [NoRet EXCEPT !.tag = "None"]
View(s) == [NoRet EXCEPT !.tag = "View", !.view = s]
UsizeVal(k) == [NoRet EXCEPT !.tag = "Usize", !.n = k]

NoArgs == [offset |-> 0, bytes |-> <<>>, byte |-> "none", pred |-> {},
           e |-> "none", lo |-> 0, hi |-> 0]

\* a method's outcome: the position it leaves and the value it returns
Outcome(p, r) == [position |-> p, ret |-> r]

\* ------------------------------------------------------------- Error<E>
ErrorNew(pos, e) == [NoRet EXCEPT !.tag = "Err", !.position = pos, !.e = e]

\* ------------------------------------------------------------- std
\* <[u8]>::get(i)
get(i) == IF i < Len(input) THEN Some(input[i + 1]) ELSE None

\* <[u8]>::starts_with(needle)
starts_with(s, needle) ==
    /\ Len(needle) <= Len(s)
    /\ SubSeq(s, 1, Len(needle)) = needle

\* ------------------------------------------------------------- ParserHelper
len == Len(input)

\* slice, were it to index the unconsumed remainder instead of the input
slice_from_position(lo, hi) ==
    IF lo > hi \/ position + hi > len
    THEN Panic
    ELSE View(SubSeq(input, position + lo + 1, position + hi))

\* &self.input[lo..hi]: panics unless lo <= hi <= len
slice(lo, hi) ==
    IF lo > hi \/ hi > len THEN Panic ELSE View(SubSeq(input, lo + 1, hi))

\* &self.input[start..]: panics unless start <= len
slice_from(start) ==
    IF start > len THEN Panic ELSE View(SubSeq(input, start + 1, len))

rest(pos) == slice_from(pos)

\* fail_at_position, were it to ignore the position it is handed
fail_at_current_position(reason, at) == ErrorNew(position, reason)

fail_at_position(reason, at) == ErrorNew(at, reason)

fail(pos, reason) == fail_at_position(reason, pos)

\* unexpected_end_of_input, were it to tag the error with the input's end
unexpected_end_of_input_at_len(pos) == fail_at_position(eoi, len)

unexpected_end_of_input(pos) == fail(pos, eoi)

\* self.position += offset
advance(pos, offset) ==
    IF pos + offset > UsizeMax /\ overflow_checks
    THEN Outcome(pos, Panic)
    ELSE Outcome((pos + offset) % UsizeModulus, Unit)

advance_over(pos, expected) ==
    LET r == rest(pos) IN
    IF r.tag = "Panic" THEN Outcome(pos, Panic)
    ELSE IF starts_with(r.view, expected)
         THEN LET a == advance(pos, Len(expected)) IN
              IF a.ret.tag = "Panic" THEN a
              ELSE Outcome(a.position, Bool(TRUE))
         ELSE Outcome(pos, Bool(FALSE))

advance_or(pos, offset, e) ==
    LET start == pos
        a == advance(pos, offset) IN
    IF a.ret.tag = "Panic" THEN a
    ELSE IF len < a.position
         THEN Outcome(a.position, fail_at_position(e, start))
         ELSE Outcome(a.position, Ok)

next(pos) ==
    LET c == get(pos) IN
    IF c.tag = "Some"
    THEN LET a == advance(pos, 1) IN
         IF a.ret.tag = "Panic" THEN a ELSE Outcome(a.position, OkByte(c.byte))
    ELSE Outcome(pos, unexpected_end_of_input(pos))

\* next_or_end, were it to advance before looking for a byte
next_or_end_advancing(pos) ==
    LET c == get(pos)
        a == advance(pos, 1) IN
    IF a.ret.tag = "Panic" THEN a
    ELSE IF c.tag = "Some"
         THEN Outcome(a.position, Some(c.byte))
         ELSE Outcome(a.position, None)

next_or_end(pos) ==
    LET c == get(pos) IN
    IF c.tag = "Some"
    THEN LET a == advance(pos, 1) IN
         IF a.ret.tag = "Panic" THEN a ELSE Outcome(a.position, Some(c.byte))
    ELSE Outcome(pos, None)

\* expect, were it to leave a mismatching byte unconsumed
expect_peeking(pos, expected, err) ==
    LET n == next(pos) IN
    IF n.ret.tag # "Ok" THEN n
    ELSE IF n.ret.byte = expected
         THEN Outcome(n.position, Ok)
         ELSE Outcome(pos, fail_at_position(err, pos))

expect(pos, expected, err) ==
    LET n == next(pos) IN
    IF n.ret.tag # "Ok" THEN n
    ELSE IF n.ret.byte = expected
         THEN Outcome(n.position, Ok)
         ELSE Outcome(n.position, fail_at_position(err, pos))

expect_bytes(pos, exp, err) ==
    LET r == rest(pos) IN
    IF r.tag = "Panic" THEN Outcome(pos, Panic)
    ELSE IF starts_with(r.view, exp)
         THEN LET a == advance(pos, Len(exp)) IN
              IF a.ret.tag = "Panic" THEN a ELSE Outcome(a.position, Ok)
         ELSE Outcome(pos, fail(pos, err))

\* expect_pred, were it to leave a byte the predicate rejects unconsumed
expect_pred_peeking(pos, pred, err) ==
    LET n == next(pos) IN
    IF n.ret.tag # "Ok" THEN n
    ELSE IF n.ret.byte \in pred
         THEN Outcome(n.position, Ok)
         ELSE Outcome(pos, fail_at_position(err, pos))

\* expect_pred, were it to report exhaustion with the caller's payload
expect_pred_own_payload(pos, pred, err) ==
    LET n == next(pos) IN
    IF n.ret.tag # "Ok" THEN Outcome(n.position, fail(pos, err))
    ELSE IF n.ret.byte \in pred
         THEN Outcome(n.position, Ok)
         ELSE Outcome(n.position, fail_at_position(err, pos))

expect_pred(pos, pred, err) ==
    LET n == next(pos) IN
    IF n.ret.tag # "Ok" THEN n
    ELSE IF n.ret.byte \in pred
         THEN Outcome(n.position, Ok)
         ELSE Outcome(n.position, fail_at_position(err, pos))

peek(pos) ==
    LET c == get(pos) IN
    IF c.tag = "Some" THEN OkByte(c.byte) ELSE unexpected_end_of_input(pos)

\* peek_or_end, were it to look one byte too far
peek_or_end_ahead(pos) == get(pos + 1)

peek_or_end(pos) == get(pos)

\* skip, were it to consume the byte it stops at
RECURSIVE skip_past_stop(_, _)
skip_past_stop(pos, pred) ==
    LET c == next_or_end(pos) IN
    IF c.ret.tag # "Some" THEN Outcome(pos, Unit)
    ELSE IF c.ret.byte \in pred
         THEN skip_past_stop(c.position, pred)
         ELSE Outcome(c.position, Unit)

\* skip, were it an `if` instead of a `loop`
skip_once(pos, pred) ==
    LET peeked == peek_or_end(pos) IN
    IF peeked.tag = "None" THEN Outcome(pos, Unit)
    ELSE IF peeked.byte \in pred
         THEN advance(pos, 1)
         ELSE Outcome(pos, Unit)

RECURSIVE skip(_, _)
skip(pos, pred) ==
    LET peeked == peek_or_end(pos) IN
    IF peeked.tag = "None" THEN Outcome(pos, Unit)
    ELSE IF peeked.byte \in pred
         THEN LET a == advance(pos, 1) IN
              IF a.ret.tag = "Panic" THEN a ELSE skip(a.position, pred)
         ELSE Outcome(pos, Unit)

\* ------------------------------------------------------------- bookkeeping
\* the unconsumed bytes at position p, none when p is at or past the end
Remainder(p) == SubSeq(buffer, p + 1, Len(buffer))

\* the number of leading bytes of s that pred accepts
LeadingMatches(s, pred) ==
    CHOOSE k \in 0 .. Len(s) :
        /\ \A i \in 1 .. k : s[i] \in pred
        /\ k = Len(s) \/ s[k + 1] \notin pred

Succeeded(r) == r.tag \notin {"Err", "Panic"}

\* consumed is capped just above the largest position a cursor can hold:
\* a position equals the capped sum exactly when it equals the sum
ConsumedCap == UsizeMax + 1
Capped(n) == IF n > ConsumedCap THEN ConsumedCap ELSE n

\* the cursor takes the outcome of a call; n is the number of bytes the call
\* consumes when it succeeds
Apply(name, a, out, n) ==
    /\ ~panicked
    /\ position' = out.position
    /\ ret' = out.ret
    /\ panicked' = (out.ret.tag = "Panic")
    /\ op' = name
    /\ args' = a
    /\ before' = position
    /\ repeated' = (op = name /\ args = a)
    /\ allOk' = (allOk /\ Succeeded(out.ret))
    /\ consumed' = IF allOk /\ Succeeded(out.ret) THEN Capped(consumed + n) ELSE 0
    /\ lastPeek' = IF op \in {"peek", "peek_or_end"} /\ ret.tag \in {"Ok", "Some"}
                   THEN ret.byte
                   ELSE "none"
    /\ UNCHANGED <<buffer, input, overflow_checks>>
    /\ UNCHANGED twoVars

\* ------------------------------------------------------------- actions
\* ParserHelper::new(input), in either build
Init ==
    /\ buffer \in Buffers
    /\ input = buffer
    /\ position = 0
    /\ overflow_checks \in BOOLEAN
    /\ panicked = FALSE
    /\ op = "new"
    /\ args = NoArgs
    /\ before = 0
    /\ ret = Unit
    /\ repeated = FALSE
    /\ allOk = TRUE
    /\ consumed = 0
    /\ lastPeek = "none"
    /\ cursors = [c \in Cursors |-> 0]
    /\ solo = [c \in Cursors |-> 0]
    /\ who = "none"
    /\ agree = TRUE

LenCall == Apply("len", NoArgs, Outcome(position, UsizeVal(len)), 0)

PositionCall == Apply("position", NoArgs, Outcome(position, UsizeVal(position)), 0)

Slice ==
    \E lo \in RangeStarts, hi \in RangeEnds :
        Apply("slice", [NoArgs EXCEPT !.lo = lo, !.hi = hi],
              Outcome(position, slice(lo, hi)), 0)

Rest == Apply("rest", NoArgs, Outcome(position, rest(position)), 0)

Fail ==
    \E e \in Payloads :
        Apply("fail", [NoArgs EXCEPT !.e = e], Outcome(position, fail(position, e)), 0)

FailAtPosition ==
    \E e \in Payloads, at \in Offsets :
        Apply("fail_at_position", [NoArgs EXCEPT !.e = e, !.offset = at],
              Outcome(position, fail_at_position(e, at)), 0)

UnexpectedEndOfInput ==
    Apply("unexpected_end_of_input", NoArgs,
          Outcome(position, unexpected_end_of_input(position)), 0)

Advance ==
    \E offset \in Offsets :
        Apply("advance", [NoArgs EXCEPT !.offset = offset],
              advance(position, offset), offset)

AdvanceOver ==
    \E expected \in Needles :
        LET out == advance_over(position, expected) IN
        Apply("advance_over", [NoArgs EXCEPT !.bytes = expected], out,
              IF out.ret.flag THEN Len(expected) ELSE 0)

AdvanceOr ==
    \E offset \in Offsets, e \in Payloads :
        Apply("advance_or", [NoArgs EXCEPT !.offset = offset, !.e = e],
              advance_or(position, offset, e), offset)

NextByte == Apply("next", NoArgs, next(position), 1)

NextOrEnd ==
    LET out == next_or_end(position) IN
    Apply("next_or_end", NoArgs, out, IF out.ret.tag = "Some" THEN 1 ELSE 0)

Expect ==
    \E expected \in Bytes, err \in Payloads :
        Apply("expect", [NoArgs EXCEPT !.byte = expected, !.e = err],
              expect(position, expected, err), 1)

ExpectBytes ==
    \E exp \in Needles, err \in Payloads :
        Apply("expect_bytes", [NoArgs EXCEPT !.bytes = exp, !.e = err],
              expect_bytes(position, exp, err), Len(exp))

ExpectPred ==
    \E pred \in Preds, err \in Payloads :
        Apply("expect_pred", [NoArgs EXCEPT !.pred = pred, !.e = err],
              expect_pred(position, pred, err), 1)

Peek == Apply("peek", NoArgs, Outcome(position, peek(position)), 0)

PeekOrEnd == Apply("peek_or_end", NoArgs, Outcome(position, peek_or_end(position)), 0)

Skip ==
    \E pred \in Preds :
        Apply("skip", [NoArgs EXCEPT !.pred = pred], skip(position, pred),
              LeadingMatches(Remainder(position), pred))

Next ==
    \/ LenCall
    \/ PositionCall
    \/ Slice
    \/ Rest
    \/ Fail
    \/ FailAtPosition
    \/ UnexpectedEndOfInput
    \/ Advance
    \/ AdvanceOver
    \/ AdvanceOr
    \/ NextByte
    \/ NextOrEnd
    \/ Expect
    \/ ExpectBytes
    \/ ExpectPred
    \/ Peek
    \/ PeekOrEnd
    \/ Skip

Spec == Init /\ [][Next]_vars

TypeOK ==
    /\ buffer \in Buffers
    /\ input \in Buffers
    /\ position \in Usize
    /\ before \in Usize
    /\ overflow_checks \in BOOLEAN
    /\ panicked \in BOOLEAN
    /\ repeated \in BOOLEAN
    /\ allOk \in BOOLEAN
    /\ consumed \in 0 .. ConsumedCap
    /\ lastPeek \in Bytes \cup {"none"}
    /\ cursors \in [Cursors -> Usize]
    /\ solo \in [Cursors -> Usize]
    /\ who \in Cursors \cup {"none"}
    /\ agree \in BOOLEAN

\* ------------------------------------------------------------- two cursors
\* Two ParserHelpers made by new() over the same slice, called in any
\* order.  A call is one step: it reads the immutable input and its own
\* cursor's position and writes nothing else.

\* a call on one cursor, were the position shared by the cursors
TwoApplyShared(c, out, alone) ==
    /\ ~panicked
    /\ cursors' = [d \in Cursors |-> out.position]
    /\ solo' = [solo EXCEPT ![c] = alone.position]
    /\ who' = c
    /\ agree' = (out.ret = alone.ret)
    /\ panicked' = (out.ret.tag = "Panic")
    /\ UNCHANGED <<buffer, input, overflow_checks>>
    /\ UNCHANGED oneVars

\* cursor c takes the outcome out of a call; alone is the outcome of the
\* same call in the run of c's calls alone
TwoApply(c, out, alone) ==
    /\ ~panicked
    /\ cursors' = [cursors EXCEPT ![c] = out.position]
    /\ solo' = [solo EXCEPT ![c] = alone.position]
    /\ who' = c
    /\ agree' = (out.ret = alone.ret)
    /\ panicked' = (out.ret.tag = "Panic")
    /\ UNCHANGED <<buffer, input, overflow_checks>>
    /\ UNCHANGED oneVars

TwoRest ==
    \E c \in Cursors :
        TwoApply(c, Outcome(cursors[c], rest(cursors[c])),
                 Outcome(solo[c], rest(solo[c])))

TwoFail ==
    \E c \in Cursors, e \in Payloads :
        TwoApply(c, Outcome(cursors[c], fail(cursors[c], e)),
                 Outcome(solo[c], fail(solo[c], e)))

TwoAdvance ==
    \E c \in Cursors, offset \in Offsets :
        TwoApply(c, advance(cursors[c], offset), advance(solo[c], offset))

TwoAdvanceOver ==
    \E c \in Cursors, expected \in Needles :
        TwoApply(c, advance_over(cursors[c], expected),
                 advance_over(solo[c], expected))

TwoAdvanceOr ==
    \E c \in Cursors, offset \in Offsets, e \in Payloads :
        TwoApply(c, advance_or(cursors[c], offset, e),
                 advance_or(solo[c], offset, e))

TwoNextByte ==
    \E c \in Cursors : TwoApply(c, next(cursors[c]), next(solo[c]))

TwoNextOrEnd ==
    \E c \in Cursors : TwoApply(c, next_or_end(cursors[c]), next_or_end(solo[c]))

TwoExpect ==
    \E c \in Cursors, expected \in Bytes, err \in Payloads :
        TwoApply(c, expect(cursors[c], expected, err),
                 expect(solo[c], expected, err))

TwoExpectBytes ==
    \E c \in Cursors, exp \in Needles, err \in Payloads :
        TwoApply(c, expect_bytes(cursors[c], exp, err),
                 expect_bytes(solo[c], exp, err))

TwoExpectPred ==
    \E c \in Cursors, pred \in Preds, err \in Payloads :
        TwoApply(c, expect_pred(cursors[c], pred, err),
                 expect_pred(solo[c], pred, err))

TwoPeek ==
    \E c \in Cursors :
        TwoApply(c, Outcome(cursors[c], peek(cursors[c])),
                 Outcome(solo[c], peek(solo[c])))

TwoPeekOrEnd ==
    \E c \in Cursors :
        TwoApply(c, Outcome(cursors[c], peek_or_end(cursors[c])),
                 Outcome(solo[c], peek_or_end(solo[c])))

TwoSkip ==
    \E c \in Cursors, pred \in Preds :
        TwoApply(c, skip(cursors[c], pred), skip(solo[c], pred))

NextTwo ==
    \/ TwoRest
    \/ TwoFail
    \/ TwoAdvance
    \/ TwoAdvanceOver
    \/ TwoAdvanceOr
    \/ TwoNextByte
    \/ TwoNextOrEnd
    \/ TwoExpect
    \/ TwoExpectBytes
    \/ TwoExpectPred
    \/ TwoPeek
    \/ TwoPeekOrEnd
    \/ TwoSkip

SpecTwo == Init /\ [][NextTwo]_vars

\* ------------------------------------------------------------- claims
\* C1: position is monotonically non-decreasing: no cursor operation,
\* succeeding or failing, leaves the position smaller than it found it.
C1_PositionNeverDecreases == [][position' >= position]_vars

\* C2: every operation other than slice returns a value or an Error value
\* in every reachable state, past-the-end positions included: none panics.
C2_FailuresAreValues ==
    op \in {"rest", "advance_over", "expect_bytes", "next", "next_or_end",
            "expect", "expect_pred", "peek", "peek_or_end", "skip", "fail"}
        => ret.tag # "Panic"

\* C3: after a sequence of successful operations on a fresh cursor the
\* position is the sum of the bytes each operation consumed.
C3_PositionIsSumOfConsumed == allOk => position = consumed

\* C4: advance_over(X) returns true and advances by exactly Len(X) when the
\* remainder starts with X, and otherwise returns false and leaves the
\* position unchanged; it has no other outcome.
C4_AdvanceOverAllOrNothing ==
    op = "advance_over" =>
        IF starts_with(Remainder(before), args.bytes)
        THEN ret = Bool(TRUE) /\ position = before + Len(args.bytes)
        ELSE ret = Bool(FALSE) /\ position = before

\* C5: next_or_end and peek_or_end return None exactly when the position is
\* at or past the buffer's length, next and peek fail with E::eoi() tagged
\* with the current position under exactly that condition, and otherwise
\* all four return the byte at the position.
C5_EndOfInput ==
    /\ op \in {"next_or_end", "peek_or_end"} =>
           ret = IF before >= Len(buffer) THEN None ELSE Some(buffer[before + 1])
    /\ op \in {"next", "peek"} =>
           ret = IF before >= Len(buffer)
                 THEN ErrorNew(before, eoi)
                 ELSE OkByte(buffer[before + 1])

\* next on an empty buffer fails with Error{position: 0, e: eoi}
C5_Witness ==
    /\ op = "next"
    /\ buffer = <<>>
    /\ before = 0
    /\ ret = ErrorNew(0, eoi)

\* C6: with a byte available, expect(expected, err) leaves the position one
\* past where it was called, returning Ok when the byte is the expected one
\* and Error{position before the call, err} when it is not; a following
\* peek_or_end returns the next byte and does not move.
C6_ExpectConsumesOnMismatch ==
    /\ op = "expect" /\ before < Len(buffer) =>
           /\ position = before + 1
           /\ ret = IF buffer[before + 1] = args.byte
                    THEN Ok
                    ELSE ErrorNew(before, args.e)
    /\ op = "peek_or_end" /\ before < Len(buffer) =>
           /\ position = before
           /\ ret = Some(buffer[before + 1])

\* the second expect of the "ab12" scenario: a mismatch at position 1
C6_Witness ==
    /\ op = "expect"
    /\ before = 1
    /\ Len(buffer) >= 3
    /\ buffer[2] # args.byte
    /\ ret = ErrorNew(1, "B")
    /\ position = 2

\* C7: expect_bytes(X, err) returns Ok and advances by exactly Len(X) when
\* the remainder starts with X, and otherwise returns Error{current
\* position, err} and leaves the position unchanged.
C7_ExpectBytesKeepsPositionOnMismatch ==
    op = "expect_bytes" =>
        IF starts_with(Remainder(before), args.bytes)
        THEN ret = Ok /\ position = before + Len(args.bytes)
        ELSE ret = ErrorNew(before, args.e) /\ position = before

\* C8: advance_or(offset, e) called at p leaves the position at p + offset,
\* returning Ok exactly when p + offset is within the buffer and otherwise
\* Error{p, e}.
C8_AdvanceOrMovesThenChecks ==
    op = "advance_or" =>
        /\ position = before + args.offset
        /\ ret = IF before + args.offset <= Len(buffer)
                 THEN Ok
                 ELSE ErrorNew(before, args.e)

\* C9: skip(p) called twice in succession: the second call leaves the
\* position where the first call left it.
C9_SkipIdempotent ==
    op = "skip" /\ repeated => position = before /\ ret = Unit

\* a second skip, after a first one that stopped at a byte it rejects,
\* behind a byte it accepts
C9_Witness ==
    /\ op = "skip"
    /\ repeated
    /\ 0 < position
    /\ position < Len(buffer)
    /\ buffer[position] \in args.pred
    /\ buffer[position + 1] \notin args.pred

\* C10: the buffer is never mutated and slicing does not depend on the
\* position: len() is the original length and slice(0..len()) is the whole
\* original buffer, wherever the cursor is.
C10_SliceWholeBuffer ==
    /\ input = buffer
    /\ op = "len" => ret = UsizeVal(Len(buffer))
    /\ op = "slice" /\ args.lo = 0 /\ args.hi = Len(buffer) => ret = View(buffer)

\* the whole buffer sliced with the cursor past its end
C10_Witness ==
    /\ op = "slice"
    /\ args.lo = 0
    /\ args.hi = Len(buffer)
    /\ Len(buffer) >= 2
    /\ position > Len(buffer)
    /\ ret = View(buffer)

\* C11: fail(payload) returns Error{current position, payload},
\* fail_at_position(payload, q) returns Error{q, payload} for any q,
\* unexpected_end_of_input() returns what fail(E::eoi()) returns, and none
\* of the three moves the cursor.
C11_FailTagsPosition ==
    /\ op = "fail" => ret = ErrorNew(before, args.e) /\ position = before
    /\ op = "fail_at_position" =>
           ret = ErrorNew(args.offset, args.e) /\ position = before
    /\ op = "unexpected_end_of_input" =>
           ret = fail(before, eoi) /\ ret = ErrorNew(before, eoi) /\ position = before

\* fail_at_position with a position beyond both the cursor and the buffer
C11_Witness ==
    /\ op = "fail_at_position"
    /\ args.offset > position
    /\ args.offset > Len(buffer)
    /\ args.e = "B"
    /\ ret = ErrorNew(args.offset, "B")

\* C12: skip(pred) returns normally and leaves the position at the least
\* index at or after the one it was called at that is past the buffer's end
\* or holds a byte pred rejects; every byte it stepped over satisfies pred,
\* and called at or past the end it does not move.
C12_SkipStopsAtFirstMismatch ==
    op = "skip" =>
        /\ ret = Unit
        /\ position >= before
        /\ position >= Len(buffer) \/ buffer[position + 1] \notin args.pred
        /\ \A i \in before .. position - 1 :
               i < Len(buffer) /\ buffer[i + 1] \in args.pred
        /\ before >= Len(buffer) => position = before

\* a skip over two accepted bytes that stops at a rejected one
C12_Witness ==
    /\ op = "skip"
    /\ position = before + 2
    /\ position < Len(buffer)
    /\ buffer[position + 1] \notin args.pred

\* C13: expect and expect_pred called with the buffer exhausted return
\* Error{current position, E::eoi()}, whatever payload and predicate they
\* were handed, and leave the position unchanged.
C13_ExpectAtEndIsEoi ==
    op \in {"expect", "expect_pred"} /\ before >= Len(buffer) =>
        ret = ErrorNew(before, eoi) /\ position = before

\* expect_pred past the end, with a payload other than eoi and a predicate
\* that accepts every byte
C13_Witness ==
    /\ op = "expect_pred"
    /\ before > Len(buffer)
    /\ args.e = "B"
    /\ args.pred = Bytes
    /\ ret = ErrorNew(before, eoi)
    /\ position = before

\* C14: peek and peek_or_end never move the cursor, whatever they return;
\* and when one of them returns a byte, a next or next_or_end called right
\* after it returns that byte and advances the position by exactly 1.
C14_PeekThenNext ==
    /\ op \in {"peek", "peek_or_end"} => position = before
    /\ op \in {"next", "next_or_end"} /\ lastPeek # "none" =>
           /\ ret = IF op = "next" THEN OkByte(lastPeek) ELSE Some(lastPeek)
           /\ position = before + 1

\* next right after a peek that returned the buffer's last byte
C14_Witness ==
    /\ op = "next"
    /\ lastPeek # "none"
    /\ ret = OkByte(lastPeek)
    /\ before > 0
    /\ position = Len(buffer)

\* C15: called with the position within the buffer, none of next,
\* next_or_end, expect, expect_bytes, expect_pred, advance_over, skip, peek,
\* peek_or_end and fail leaves it past the buffer's end: only advance and
\* advance_or can.
C15_OnlyAdvanceOverruns ==
    /\ op \in {"next", "next_or_end", "expect", "expect_bytes", "expect_pred",
               "advance_over", "skip", "peek", "peek_or_end", "fail"}
    /\ before <= Len(buffer)
    => position <= Len(buffer)

\* next_or_end called at the end of a non-empty buffer
C15_Witness ==
    /\ op = "next_or_end"
    /\ Len(buffer) > 0
    /\ before = Len(buffer)
    /\ position = Len(buffer)
    /\ ret = None

\* C16: advance(offset) returns normally and leaves the position at the
\* integer sum of the position it was called at and offset, for every
\* position and offset a usize can hold.
C16_AdvanceAddsExactly ==
    op = "advance" => ret = Unit /\ position = before + args.offset

\* the predicate x -> x == b
Equals(b) == {b}

\* C17: from every cursor state, expect(b, err) and
\* expect_pred(x -> x == b, err) return the same result and leave the same
\* position, for every byte b and payload err; and expect_pred consumes
\* exactly one byte whenever one is available, also when the predicate
\* rejects it.
C17_ExpectPredGeneralisesExpect ==
    /\ \A b \in Bytes, err \in Payloads :
           expect_pred(position, Equals(b), err) = expect(position, b, err)
    /\ op = "expect_pred" =>
           /\ \A b \in Bytes :
                  args.pred = Equals(b) =>
                      Outcome(position, ret) = expect(before, b, args.e)
           /\ before < Len(buffer) => position = before + 1

\* expect_pred with x -> x == b on a byte other than b: the payload tagged
\* with the position before the call, one byte consumed, as expect does
C17_Witness ==
    /\ op = "expect_pred"
    /\ before > 0
    /\ before < Len(buffer)
    /\ \E b \in Bytes :
           /\ args.pred = Equals(b)
           /\ buffer[before + 1] # b
           /\ Outcome(position, ret) = expect(before, b, args.e)
    /\ ret = ErrorNew(before, "B")
    /\ position = before + 1

\* C18: from every cursor state and for every byte sequence X,
\* advance_over(X) returns true exactly when expect_bytes(X, err) returns
\* Ok, the two leave the same position, and with X empty both succeed and
\* leave the position unchanged.
C18_AdvanceOverAgreesWithExpectBytes ==
    /\ \A X \in Needles, err \in Payloads :
           LET a == advance_over(position, X)
               b == expect_bytes(position, X, err) IN
           /\ a.ret = Bool(TRUE) <=> b.ret = Ok
           /\ a.position = b.position
    /\ op = "advance_over" /\ args.bytes = <<>> =>
           ret = Bool(TRUE) /\ position = before
    /\ op = "expect_bytes" /\ args.bytes = <<>> =>
           ret = Ok /\ position = before

====
